---- MODULE Spec2Model ----
(***************************************************************************)
(* Model of common/mvccdbv2: MVCCDB (mvccdb.go), a transactional overlay   *)
(* on a key-value storage, with prepared (nested) databases that stage     *)
(* their changes in a StagingTable and merge them into their parent.       *)
(*                                                                         *)
(* MVCCDB is translated from mvccdb.go.  StagingTable and its versionized  *)
(* values are not part of the sources at hand; they are modelled from the  *)
(* design document (sections 3 and 4.2).  One point of that document is    *)
(* read as follows: a record copied into the parent by a merge keeps the   *)
(* TID of the merging table as its owner ("identity of the staging table   *)
(* that created this record"), which is what the conflict rule (a), the    *)
(* ConflictWithSibling(tid) error and the returned sibling TIDs rely on.   *)
(* The version counter of a versionized value is left out: no operation    *)
(* of the design reads it.                                                 *)
(*                                                                         *)
(* BatchTrie (package trie) is translated from its source: the changelog   *)
(* of a batch, the two operation logs and RelatedTo.  The Trie under it is *)
(* not part of the sources at hand; it is modelled by its key-to-value     *)
(* contents, with Get and Del failing on a key it does not hold.           *)
(***************************************************************************)
EXTENDS Integers, Sequences, FiniteSets, TLC

\* ------------------------------------------------------------------ bounds
Keys == {"k1", "k2"}
Vals == {"v1", "v2"}
Tids == {"T1", "T2"}

\* the nil []byte / nil interface{} of the Go code, and "absent" of the design
Nil == "nil"

\* at most MaxPrepared prepared databases are created in one run
MaxPrepared == 2

\* a batch of a BatchTrie logs at most MaxChangelog writes
MaxChangelog == 3

\* ------------------------------------------------------------ error values
ErrUnsupportedNestedTransaction    == "unsupported nested transaction"
ErrTransactionNotStarted           == "transaction is not started"
ErrDisallowedCallingInNoPreparedDB == "disallowed calling in No-Prepared MVCCDB"
ErrTidIsNil                        == "tid is nil"
ErrUnsupportedBeginInPreparedDB    == "unsupported begin transaction in prepared MVCCDB"
ErrUnsupportedCommitInPreparedDB   == "unsupported commit transaction in prepared MVCCDB"
ErrUnsupportedRollBackInPreparedDB == "unsupported rollback transaction in prepared MVCCDB"
ErrPreparedDBIsDirty               == "prepared MVCCDB is dirty"
ErrTidIsExist                      == "tid is exist"
ErrKeyNotFound                     == "key not found"
ErrConflictWithSibling             == "conflict with sibling"
Ok                                 == "ok"

\* --------------------------------------------------------------- identities
\* A database is named by the TIDs prepared on the way from the root to it.
Root == << >>
DBIds == UNION {[1..n -> Tids] : n \in 0..MaxPrepared}
\* the root's tid is the root itself (db.tid = db)
RootTid == "root"

Parent(d) == SubSeq(d, 1, Len(d) - 1)
ChildOf(d, t) == Append(d, t)
TidOf(d) == IF d = Root THEN RootTid ELSE d[Len(d)]
\* the TIDs of a table and of the tables above it
AncestorTids(d) == {RootTid} \cup {d[i] : i \in 1..Len(d)}
IsPrefix(a, d) == Len(a) <= Len(d) /\ SubSeq(d, 1, Len(a)) = a

VARIABLES
    storage,          \* the backend: key -> value or Nil
    isInTransaction,  \* MVCCDB.isInTransaction, per database
    isPreparedDB,     \* MVCCDB.isPreparedDB
    isDirtyDB,        \* MVCCDB.isDirtyDB
    preparedDBs,      \* MVCCDB.preparedDBs: the TIDs registered in a database
    stagingTable,     \* the records of each database's staging table, in insertion order
    tableChildren,    \* the TIDs of the child tables of each staging table
    ret,              \* the last call and what it returned
    snap,             \* history: the backend when the root transaction began
    seen,             \* history: per database and key, what its transaction last
                      \* wrote to the key or, before any write, first read from it
    mutex,            \* MVCCDB.mutex: the thread that holds it, or Nil
    tableMutex,       \* the mutex of each staging table: its holder, or Nil
    pc,               \* per thread: the call it is in and the lock it is to take next
    trie,             \* BatchTrie.trie: key -> value or Nil, per BatchTrie
    changelog,        \* BatchTrie.changelog: the entries of the writes of the batch
    batching,         \* BatchTrie.batching
    initialoplog,     \* BatchTrie.initialoplog: key -> first entry, or the nil map
    finaloplog,       \* BatchTrie.finaloplog: key -> last entry, or the nil map
    panicked,         \* the program stopped in a runtime panic
    tret,             \* the last call of a BatchTrie and what it returned
    atBegin,          \* history: the trie when its batch began
    undone,           \* history: the changelog the last RollBack worked on
    accessed,         \* history: the keys a BatchTrie's Get, Put or Del recorded
    modified          \* history: the keys a BatchTrie's Put or Del recorded

coreVars == <<storage, isInTransaction, isPreparedDB, isDirtyDB, preparedDBs,
              stagingTable, tableChildren>>
lockVars == <<mutex, tableMutex, pc>>
trieVars == <<trie, changelog, batching, initialoplog, finaloplog, panicked,
              tret, atBegin, undone, accessed, modified>>
dbVars == <<coreVars, ret, snap, seen, lockVars>>
vars == <<storage, isInTransaction, isPreparedDB, isDirtyDB, preparedDBs,
          stagingTable, tableChildren, ret, snap, seen, mutex, tableMutex, pc,
          trie, changelog, batching, initialoplog, finaloplog, panicked,
          tret, atBegin, undone, accessed, modified>>

\* the threads of the client, and a thread that is in no call
Threads == {"main", "w1", "w2"}
Idle == [op |-> "idle", db |-> Root, key |-> Nil, at |-> "idle", left |-> {}, child |-> Nil]

\* the databases that exist: the root and every database a Prepare returned
dbs == {d \in DBIds : \A i \in 1..Len(d) : d[i] \in preparedDBs[SubSeq(d, 1, i - 1)]}

Result(op, d, k, e, v, ts) ==
    [op |-> op, db |-> d, key |-> k, err |-> e, val |-> v, tids |-> ts]

\* --------------------------------------------------------------- BatchTrie
\* the two BatchTries of RelatedTo(tobt)
BatchTries == {"bt", "tobt"}

\* Action constants
Insert == "Insert"
Update == "Update"
Delete == "Delete"
GetAction == "Get"

\* Entry{action, key, old, update}, and the absence of an entry in a map
Entry(action, k, old, update) ==
    [action |-> action, key |-> k, old |-> old, update |-> update]
NoEntry == Entry("none", Nil, Nil, Nil)

\* map[string]*Entry: the map made by make(), and the nil map
EmptyLog == [isNil |-> FALSE, at |-> [k \in Keys |-> NoEntry]]
NilLog == [isNil |-> TRUE, at |-> [k \in Keys |-> NoEntry]]
\* _, ok := log[key]: a nil map reads as an empty one
InLog(log, k) == log.at[k] # NoEntry
\* log[key] = entry, on a map that is not nil
SetLog(log, k, e) == [log EXCEPT !.at[k] = e]

\* Trie.Get, Trie.Put, Trie.Del on the key-to-value contents of a trie: Get
\* and Del of a key the trie does not hold return an error
TrieGet(t, k) == [val |-> t[k], err |-> IF t[k] = Nil THEN ErrKeyNotFound ELSE Ok]
TriePut(t, k, v) == [t |-> [t EXCEPT ![k] = v], err |-> Ok]
TrieDel(t, k) ==
    IF t[k] = Nil THEN [t |-> t, err |-> ErrKeyNotFound]
    ELSE [t |-> [t EXCEPT ![k] = Nil], err |-> Ok]

TrieResult(op, b, k, v, e, r) ==
    [op |-> op, bt |-> b, key |-> k, val |-> v, err |-> e, related |-> r]

\* ------------------------------------------------------------ StagingTable
Index(tbl, k) ==
    IF \E i \in 1..Len(tbl) : tbl[i].key = k
    THEN CHOOSE i \in 1..Len(tbl) : tbl[i].key = k
    ELSE 0
Has(tbl, k) == Index(tbl, k) # 0
Rec(tbl, k) == tbl[Index(tbl, k)]
SetRec(tbl, r) ==
    IF Has(tbl, r.key) THEN [tbl EXCEPT ![Index(tbl, r.key)] = r] ELSE Append(tbl, r)

\* a record materialized by reading through to the parent or the backend
DefaultValue(tid, k, found) ==
    [key |-> k, val |-> found, owner |-> tid, deleted |-> FALSE, dirty |-> FALSE,
     default |-> TRUE, old |-> found]

\* StagingTable.Get: the record of k, read through the parent tables down to
\* the backend when the table has none; every table on the way keeps the
\* default record it materializes.
RECURSIVE StagingGet(_, _, _)
StagingGet(st, d, k) ==
    IF Has(st[d], k)
    THEN [st |-> st, rec |-> Rec(st[d], k)]
    ELSE LET up == IF d = Root
                   THEN [st |-> st, val |-> storage[k]]
                   ELSE LET p == StagingGet(st, Parent(d), k)
                        IN  [st |-> p.st, val |-> p.rec.val]
             r  == DefaultValue(TidOf(d), k, up.val)
         IN  [st |-> [up.st EXCEPT ![d] = Append(@, r)], rec |-> r]

\* the record after a write: v = Nil and del = TRUE for a Del
Written(r, v, del) ==
    IF r.default
    THEN [r EXCEPT !.default = FALSE, !.old = r.val, !.val = v, !.deleted = del,
                   !.dirty = TRUE]
    ELSE [r EXCEPT !.val = v, !.deleted = del, !.dirty = TRUE]

\* StagingTable.Put
StagingPut(st, d, k, v) ==
    LET g == StagingGet(st, d, k)
        r == Written(g.rec, v, FALSE)
    IN  [st |-> [g.st EXCEPT ![d] = SetRec(@, r)], rec |-> r]

\* StagingTable.Del
StagingDel(st, d, k) ==
    LET g == StagingGet(st, d, k)
        r == Written(g.rec, Nil, TRUE)
    IN  [st |-> [g.st EXCEPT ![d] = SetRec(@, r)], rec |-> r]

\* merge rule (a): the parent holds a dirty record of r's key, written by a
\* table outside our ancestor chain, whose value is not the one we saw
ConflictAt(st, d, r) ==
    LET P == st[Parent(d)]
    IN  /\ Has(P, r.key)
        /\ Rec(P, r.key).dirty
        /\ Rec(P, r.key).owner \notin AncestorTids(d)
        /\ Rec(P, r.key).val # r.old

HasConflict(st, d) == \E i \in 1..Len(st[d]) : ConflictAt(st, d, st[d][i])

\* the TID of the first conflict, in the insertion order of the child table
ConflictTid(st, d) ==
    LET i == CHOOSE j \in 1..Len(st[d]) :
                 /\ ConflictAt(st, d, st[d][j])
                 /\ \A h \in 1..(j - 1) : ~ConflictAt(st, d, st[d][h])
    IN  Rec(st[Parent(d)], st[d][i].key).owner

\* a record of the child that the merge propagates
Propagates(r) == r.dirty /\ ~r.default

\* merge rule (b): r copied into the parent table P
MergedValue(P, r, tid) ==
    [key |-> r.key, val |-> r.val, owner |-> tid, deleted |-> r.deleted,
     dirty |-> TRUE, default |-> FALSE,
     old |-> IF Has(P, r.key) THEN Rec(P, r.key).val ELSE Nil]

RECURSIVE MergeInto(_, _, _)
MergeInto(P, tbl, tid) ==
    IF tbl = << >> THEN P
    ELSE LET r == Head(tbl)
         IN  IF Propagates(r)
             THEN MergeInto(SetRec(P, MergedValue(P, r, tid)), Tail(tbl), tid)
             ELSE MergeInto(P, Tail(tbl), tid)

\* the TIDs of the sibling records the merge overwrites, each once, in the
\* order first met
RECURSIVE Overwritten(_, _, _, _)
Overwritten(P, tbl, chain, acc) ==
    IF tbl = << >> THEN acc
    ELSE LET r == Head(tbl)
             hit == /\ Propagates(r)
                    /\ Has(P, r.key)
                    /\ Rec(P, r.key).dirty
                    /\ Rec(P, r.key).owner \notin chain
                    /\ \A i \in 1..Len(acc) : acc[i] # Rec(P, r.key).owner
         IN  Overwritten(P, Tail(tbl), chain,
                         IF hit THEN Append(acc, Rec(P, r.key).owner) ELSE acc)

\* StagingTable.MergeToParent: all checks run before any parent mutation
MergeToParent(st, d) ==
    IF HasConflict(st, d)
    THEN [st |-> st, err |-> ErrConflictWithSibling, tids |-> <<ConflictTid(st, d)>>]
    ELSE [st |-> [st EXCEPT ![Parent(d)] = MergeInto(@, st[d], TidOf(d)),
                            ![d] = << >>],
          err |-> Ok,
          tids |-> Overwritten(st[Parent(d)], st[d], AncestorTids(d), << >>)]

\* StagingTable.Purge: clears the table and, recursively, its child tables
Purge(st, d) ==
    [x \in DBIds |-> IF IsPrefix(d, x) THEN << >> ELSE st[x]]


\* ------------------------------------------------------- history variables
NoSeen == [kind |-> "none", val |-> Nil]
SeenRead(v) == [kind |-> "r", val |-> v]
SeenWrite(v) == [kind |-> "w", val |-> v]
\* the history of the tables purged with the tables of S
Forget(sn, S) ==
    [x \in DBIds |-> IF \E d \in S : IsPrefix(d, x) THEN [k \in Keys |-> NoSeen] ELSE sn[x]]
\* the history after the records of tbl were merged into table p
Merged(sn, p, tbl) ==
    [sn EXCEPT ![p] = [k \in Keys |->
        IF Has(tbl, k) /\ Propagates(Rec(tbl, k)) THEN SeenWrite(Rec(tbl, k).val) ELSE @[k]]]

\* ------------------------------------------------------------------ MVCCDB
Init ==
    /\ storage = [k \in Keys |-> Nil]
    /\ isInTransaction = [d \in DBIds |-> FALSE]
    /\ isPreparedDB = [d \in DBIds |-> FALSE]
    /\ isDirtyDB = [d \in DBIds |-> FALSE]
    /\ preparedDBs = [d \in DBIds |-> {}]
    /\ stagingTable = [d \in DBIds |-> << >>]
    /\ tableChildren = [d \in DBIds |-> {}]
    /\ ret = Result("open", Root, Nil, Ok, Nil, << >>)
    /\ snap = [k \in Keys |-> Nil]
    /\ seen = [d \in DBIds |-> [k \in Keys |-> NoSeen]]
    /\ mutex = [d \in DBIds |-> Nil]
    /\ tableMutex = [d \in DBIds |-> Nil]
    /\ pc = [t \in Threads |-> Idle]
    /\ trie = [b \in BatchTries |-> [k \in Keys |-> Nil]]
    /\ changelog = [b \in BatchTries |-> << >>]
    /\ batching = [b \in BatchTries |-> FALSE]
    /\ initialoplog = [b \in BatchTries |-> EmptyLog]
    /\ finaloplog = [b \in BatchTries |-> EmptyLog]
    /\ panicked = FALSE
    /\ tret = TrieResult("new", "bt", Nil, Nil, Ok, FALSE)
    /\ atBegin = [b \in BatchTries |-> [k \in Keys |-> Nil]]
    /\ undone = [b \in BatchTries |-> << >>]
    /\ accessed = [b \in BatchTries |-> {}]
    /\ modified = [b \in BatchTries |-> {}]

\* a call that returns the error e and changes nothing
Fail(op, d, e) ==
    /\ ret' = Result(op, d, Nil, e, Nil, << >>)
    /\ UNCHANGED <<coreVars, snap, seen>>

\* MVCCDB.IsPreparedDBDirty
RECURSIVE IsPreparedDBDirty(_)
IsPreparedDBDirty(d) ==
    \E t \in preparedDBs[d] : IsPreparedDBDirty(ChildOf(d, t))

\* MVCCDB.Begin
Begin(d) ==
    IF isInTransaction[d] THEN Fail("begin", d, ErrUnsupportedNestedTransaction)
    ELSE IF isPreparedDB[d] THEN Fail("begin", d, ErrUnsupportedBeginInPreparedDB)
    ELSE /\ isInTransaction' = [isInTransaction EXCEPT ![d] = TRUE]
         /\ ret' = Result("begin", d, Nil, Ok, Nil, << >>)
         /\ snap' = storage
         /\ seen' = [seen EXCEPT ![d] = [k \in Keys |-> NoSeen]]
         /\ UNCHANGED <<storage, isPreparedDB, isDirtyDB, preparedDBs, stagingTable,
                        tableChildren>>

\* Flush with the test of the dirty flag inverted
FlushClean(sto, tbl) ==
    [k \in Keys |->
        IF Has(tbl, k) /\ ~Rec(tbl, k).default /\ ~Rec(tbl, k).dirty
        THEN (IF Rec(tbl, k).deleted THEN Nil ELSE Rec(tbl, k).val)
        ELSE sto[k]]

\* the backend after the commit loop over the staged values of tbl
Flush(sto, tbl) ==
    [k \in Keys |->
        IF Has(tbl, k) /\ ~Rec(tbl, k).default /\ Rec(tbl, k).dirty
        THEN (IF Rec(tbl, k).deleted THEN Nil ELSE Rec(tbl, k).val)
        ELSE sto[k]]

\* Commit without the test of isPreparedDB
CommitUnchecked(d) ==
    IF ~isInTransaction[d] THEN Fail("commit", d, ErrTransactionNotStarted)
    ELSE IF IsPreparedDBDirty(d) THEN Fail("commit", d, ErrPreparedDBIsDirty)
    ELSE /\ storage' = Flush(storage, stagingTable[d])
         /\ isInTransaction' = [isInTransaction EXCEPT ![d] = FALSE]
         /\ isDirtyDB' = [isDirtyDB EXCEPT ![d] = FALSE]
         /\ ret' = Result("commit", d, Nil, Ok, Nil, << >>)
         /\ snap' = storage'
         /\ seen' = [seen EXCEPT ![d] = [k \in Keys |-> NoSeen]]
         /\ UNCHANGED <<isPreparedDB, preparedDBs, stagingTable, tableChildren>>

\* MVCCDB.Commit
Commit(d) ==
    IF ~isInTransaction[d] THEN Fail("commit", d, ErrTransactionNotStarted)
    ELSE IF isPreparedDB[d] THEN Fail("commit", d, ErrUnsupportedCommitInPreparedDB)
    ELSE IF IsPreparedDBDirty(d) THEN Fail("commit", d, ErrPreparedDBIsDirty)
    ELSE /\ storage' = Flush(storage, stagingTable[d])
         /\ isInTransaction' = [isInTransaction EXCEPT ![d] = FALSE]
         /\ isDirtyDB' = [isDirtyDB EXCEPT ![d] = FALSE]
         /\ ret' = Result("commit", d, Nil, Ok, Nil, << >>)
         /\ snap' = storage'
         /\ seen' = [seen EXCEPT ![d] = [k \in Keys |-> NoSeen]]
         /\ UNCHANGED <<isPreparedDB, preparedDBs, stagingTable, tableChildren>>

\* the backend after the commit loop when the storage returns an error for
\* the write of key fk and keeps its value
FlushFailing(sto, tbl, fk) ==
    [k \in Keys |-> IF k = fk THEN sto[k] ELSE Flush(sto, tbl)[k]]

\* MVCCDB.Commit on a storage whose Put and Del fail for key fk (no key when
\* fk is Nil): the loop drops what putToStorage and delFromStorage return.
\* The result records in key the key whose write the storage rejected.
CommitFailing(d, fk) ==
    IF ~isInTransaction[d] THEN Fail("commit", d, ErrTransactionNotStarted)
    ELSE IF isPreparedDB[d] THEN Fail("commit", d, ErrUnsupportedCommitInPreparedDB)
    ELSE IF IsPreparedDBDirty(d) THEN Fail("commit", d, ErrPreparedDBIsDirty)
    ELSE LET tbl == stagingTable[d]
             rejected == /\ fk # Nil
                         /\ Has(tbl, fk) /\ ~Rec(tbl, fk).default /\ Rec(tbl, fk).dirty
         IN  /\ storage' = FlushFailing(storage, tbl, fk)
             /\ isInTransaction' = [isInTransaction EXCEPT ![d] = FALSE]
             /\ isDirtyDB' = [isDirtyDB EXCEPT ![d] = FALSE]
             /\ ret' = Result("commit", d, IF rejected THEN fk ELSE Nil, Ok, Nil, << >>)
             /\ snap' = storage'
             /\ seen' = [seen EXCEPT ![d] = [k \in Keys |-> NoSeen]]
             /\ UNCHANGED <<isPreparedDB, preparedDBs, stagingTable, tableChildren>>

\* the databases a Reset of d resets: d and, recursively, its registered
\* children; none when Reset returns an error
RECURSIVE ResetSet(_)
ResetSet(d) ==
    IF ~isInTransaction[d] \/ ~isPreparedDB[d] THEN {}
    ELSE {d} \cup UNION {ResetSet(ChildOf(d, t)) : t \in preparedDBs[d]}

\* the staging tables after the Purge calls of the databases in S
PurgeAll(st, S) ==
    [x \in DBIds |-> IF \E d \in S : IsPrefix(d, x) THEN << >> ELSE st[x]]

\* RollBackStorage of a RollBack that runs the loop of Commit
RollBackFlushes(sto, tbl) == Flush(sto, tbl)

\* the backend after RollBack, which makes no call to it
RollBackStorage(sto, tbl) == sto

\* RollBack without the test of isPreparedDB
RollBackUnchecked(d) ==
    IF ~isInTransaction[d] THEN Fail("rollback", d, ErrTransactionNotStarted)
    ELSE LET S == UNION {ResetSet(ChildOf(d, t)) : t \in preparedDBs[d]}
         IN  /\ stagingTable' = Purge(PurgeAll(stagingTable, S), d)
             /\ isDirtyDB' = [x \in DBIds |-> IF x \in S \/ x = d THEN FALSE ELSE isDirtyDB[x]]
             /\ isInTransaction' = [isInTransaction EXCEPT ![d] = FALSE]
             /\ storage' = RollBackStorage(storage, stagingTable[d])
             /\ ret' = Result("rollback", d, Nil, Ok, Nil, << >>)
             /\ seen' = Forget(seen, S \cup {d})
             /\ UNCHANGED <<isPreparedDB, preparedDBs, tableChildren, snap>>

\* MVCCDB.RollBack
RollBack(d) ==
    IF ~isInTransaction[d] THEN Fail("rollback", d, ErrTransactionNotStarted)
    ELSE IF isPreparedDB[d] THEN Fail("rollback", d, ErrUnsupportedRollBackInPreparedDB)
    ELSE LET S == UNION {ResetSet(ChildOf(d, t)) : t \in preparedDBs[d]}
         IN  /\ stagingTable' = Purge(PurgeAll(stagingTable, S), d)
             /\ isDirtyDB' = [x \in DBIds |-> IF x \in S \/ x = d THEN FALSE ELSE isDirtyDB[x]]
             /\ isInTransaction' = [isInTransaction EXCEPT ![d] = FALSE]
             /\ storage' = RollBackStorage(storage, stagingTable[d])
             /\ ret' = Result("rollback", d, Nil, Ok, Nil, << >>)
             /\ seen' = Forget(seen, S \cup {d})
             /\ UNCHANGED <<isPreparedDB, preparedDBs, tableChildren, snap>>

\* what Get returns for the versionized value rec
GetResult(d, k, rec) ==
    IF rec.deleted \/ rec.val = Nil
    THEN Result("get", d, k, ErrKeyNotFound, Nil, << >>)
    ELSE Result("get", d, k, Ok, rec.val, << >>)

\* storage.Get
StorageGet(d, k) ==
    IF storage[k] = Nil
    THEN Result("get", d, k, ErrKeyNotFound, Nil, << >>)
    ELSE Result("get", d, k, Ok, storage[k], << >>)

\* Get without the staging table: every read goes to the storage
GetFromStorage(d, k) ==
    /\ ret' = StorageGet(d, k)
    /\ seen' = IF isInTransaction[d] /\ seen[d][k].kind = "none"
               THEN [seen EXCEPT ![d][k] = SeenRead(ret'.val)]
               ELSE seen
    /\ UNCHANGED <<coreVars, snap>>

\* Get without the test of isInTransaction: every read goes to the staging table
GetStaged(d, k) ==
    LET g == StagingGet(stagingTable, d, k)
    IN  /\ stagingTable' = g.st
        /\ ret' = GetResult(d, k, g.rec)
        /\ seen' = IF isInTransaction[d] /\ seen[d][k].kind = "none"
                   THEN [seen EXCEPT ![d][k] = SeenRead(ret'.val)]
                   ELSE seen
        /\ UNCHANGED <<storage, isInTransaction, isPreparedDB, isDirtyDB,
                       preparedDBs, tableChildren, snap>>

\* Get of a prepared database that reads the staging table of its parent
GetFromParent(d, k) ==
    IF ~isInTransaction[d]
    THEN /\ ret' = StorageGet(d, k)
         /\ UNCHANGED <<coreVars, snap, seen>>
    ELSE LET g == StagingGet(stagingTable, IF d = Root THEN d ELSE Parent(d), k)
         IN  /\ stagingTable' = g.st
             /\ ret' = GetResult(d, k, g.rec)
             /\ seen' = IF seen[d][k].kind = "none"
                        THEN [seen EXCEPT ![d][k] = SeenRead(ret'.val)]
                        ELSE seen
             /\ UNCHANGED <<storage, isInTransaction, isPreparedDB, isDirtyDB,
                            preparedDBs, tableChildren, snap>>

\* MVCCDB.Get
Get(d, k) ==
    IF ~isInTransaction[d]
    THEN /\ ret' = StorageGet(d, k)
         /\ UNCHANGED <<coreVars, snap, seen>>
    ELSE LET g == StagingGet(stagingTable, d, k)
         IN  /\ stagingTable' = g.st
             /\ ret' = GetResult(d, k, g.rec)
             /\ seen' = IF seen[d][k].kind = "none"
                        THEN [seen EXCEPT ![d][k] = SeenRead(ret'.val)]
                        ELSE seen
             /\ UNCHANGED <<storage, isInTransaction, isPreparedDB, isDirtyDB,
                            preparedDBs, tableChildren, snap>>

\* MVCCDB.Put
Put(d, k, v) ==
    IF ~isInTransaction[d]
    THEN /\ storage' = [storage EXCEPT ![k] = v]
         /\ ret' = Result("put", d, Nil, Ok, Nil, << >>)
         /\ snap' = storage'
         /\ UNCHANGED <<isInTransaction, isPreparedDB, isDirtyDB, preparedDBs,
                        stagingTable, tableChildren, seen>>
    ELSE /\ stagingTable' = StagingPut(stagingTable, d, k, v).st
         /\ isDirtyDB' = [isDirtyDB EXCEPT ![d] = TRUE]
         /\ ret' = Result("put", d, Nil, Ok, Nil, << >>)
         /\ seen' = [seen EXCEPT ![d][k] = SeenWrite(v)]
         /\ UNCHANGED <<storage, isInTransaction, isPreparedDB, preparedDBs,
                        tableChildren, snap>>

\* MVCCDB.Del
Del(d, k) ==
    IF ~isInTransaction[d]
    THEN /\ storage' = [storage EXCEPT ![k] = Nil]
         /\ ret' = Result("del", d, Nil, Ok, Nil, << >>)
         /\ snap' = storage'
         /\ UNCHANGED <<isInTransaction, isPreparedDB, isDirtyDB, preparedDBs,
                        stagingTable, tableChildren, seen>>
    ELSE /\ stagingTable' = StagingDel(stagingTable, d, k).st
         /\ isDirtyDB' = [isDirtyDB EXCEPT ![d] = TRUE]
         /\ ret' = Result("del", d, Nil, Ok, Nil, << >>)
         /\ seen' = [seen EXCEPT ![d][k] = SeenWrite(Nil)]
         /\ UNCHANGED <<storage, isInTransaction, isPreparedDB, preparedDBs,
                        tableChildren, snap>>

\* Prepare without the test of isInTransaction
PrepareAnytime(d, tid) ==
    IF tid = Nil THEN Fail("prepare", d, ErrTidIsNil)
    ELSE IF tid \in preparedDBs[d] THEN Fail("prepare", d, ErrTidIsExist)
    ELSE IF tid \in tableChildren[d] THEN Fail("prepare", d, ErrTidIsExist)
    ELSE /\ Cardinality(dbs) <= MaxPrepared
         /\ tableChildren' = [tableChildren EXCEPT ![d] = @ \cup {tid}]
         /\ preparedDBs' = [preparedDBs EXCEPT ![d] = @ \cup {tid}]
         /\ isInTransaction' = [isInTransaction EXCEPT ![ChildOf(d, tid)] = TRUE]
         /\ isPreparedDB' = [isPreparedDB EXCEPT ![ChildOf(d, tid)] = TRUE]
         /\ isDirtyDB' = [isDirtyDB EXCEPT ![ChildOf(d, tid)] = FALSE]
         /\ stagingTable' = [stagingTable EXCEPT ![ChildOf(d, tid)] = << >>]
         /\ ret' = Result("prepare", d, Nil, Ok, tid, << >>)
         /\ UNCHANGED <<storage, snap, seen>>

\* MVCCDB.Prepare
Prepare(d, tid) ==
    IF ~isInTransaction[d] THEN Fail("prepare", d, ErrTransactionNotStarted)
    ELSE IF tid = Nil THEN Fail("prepare", d, ErrTidIsNil)
    ELSE IF tid \in preparedDBs[d] THEN Fail("prepare", d, ErrTidIsExist)
    ELSE IF tid \in tableChildren[d] THEN Fail("prepare", d, ErrTidIsExist)
    ELSE /\ Cardinality(dbs) <= MaxPrepared
         /\ tableChildren' = [tableChildren EXCEPT ![d] = @ \cup {tid}]
         /\ preparedDBs' = [preparedDBs EXCEPT ![d] = @ \cup {tid}]
         /\ isInTransaction' = [isInTransaction EXCEPT ![ChildOf(d, tid)] = TRUE]
         /\ isPreparedDB' = [isPreparedDB EXCEPT ![ChildOf(d, tid)] = TRUE]
         /\ isDirtyDB' = [isDirtyDB EXCEPT ![ChildOf(d, tid)] = FALSE]
         /\ stagingTable' = [stagingTable EXCEPT ![ChildOf(d, tid)] = << >>]
         /\ ret' = Result("prepare", d, Nil, Ok, tid, << >>)
         /\ UNCHANGED <<storage, snap, seen>>

\* CheckAndUpdate that drops the error of MergeToParent
CheckAndUpdateNoError(d) ==
    IF ~isInTransaction[d] THEN Fail("check_and_update", d, ErrTransactionNotStarted)
    ELSE IF ~isPreparedDB[d]
    THEN Fail("check_and_update", d, ErrDisallowedCallingInNoPreparedDB)
    ELSE LET m == MergeToParent(stagingTable, d)
         IN  /\ stagingTable' = m.st
             /\ isDirtyDB' = [isDirtyDB EXCEPT ![d] = IF m.err = Ok THEN FALSE ELSE @]
             /\ ret' = Result("check_and_update", d, Nil, Ok, Nil, m.tids)
             /\ seen' = IF m.err = Ok
                        THEN Merged([seen EXCEPT ![d] = [k \in Keys |-> NoSeen]], Parent(d), stagingTable[d])
                        ELSE seen
             /\ UNCHANGED <<storage, isInTransaction, isPreparedDB, preparedDBs,
                            tableChildren, snap>>

\* CheckAndUpdate that clears isDirtyDB whatever MergeToParent returns
CheckAndUpdateClears(d) ==
    IF ~isInTransaction[d] THEN Fail("check_and_update", d, ErrTransactionNotStarted)
    ELSE IF ~isPreparedDB[d]
    THEN Fail("check_and_update", d, ErrDisallowedCallingInNoPreparedDB)
    ELSE LET m == MergeToParent(stagingTable, d)
         IN  /\ stagingTable' = m.st
             /\ isDirtyDB' = [isDirtyDB EXCEPT ![d] = FALSE]
             /\ ret' = Result("check_and_update", d, Nil, m.err, Nil, m.tids)
             /\ seen' = IF m.err = Ok
                        THEN Merged([seen EXCEPT ![d] = [k \in Keys |-> NoSeen]], Parent(d), stagingTable[d])
                        ELSE seen
             /\ UNCHANGED <<storage, isInTransaction, isPreparedDB, preparedDBs,
                            tableChildren, snap>>

\* MVCCDB.CheckAndUpdate
CheckAndUpdate(d) ==
    IF ~isInTransaction[d] THEN Fail("check_and_update", d, ErrTransactionNotStarted)
    ELSE IF ~isPreparedDB[d]
    THEN Fail("check_and_update", d, ErrDisallowedCallingInNoPreparedDB)
    ELSE LET m == MergeToParent(stagingTable, d)
         IN  /\ stagingTable' = m.st
             /\ isDirtyDB' = [isDirtyDB EXCEPT ![d] = IF m.err = Ok THEN FALSE ELSE @]
             /\ ret' = Result("check_and_update", d, Nil, m.err, Nil, m.tids)
             /\ seen' = IF m.err = Ok
                        THEN Merged([seen EXCEPT ![d] = [k \in Keys |-> NoSeen]], Parent(d), stagingTable[d])
                        ELSE seen
             /\ UNCHANGED <<storage, isInTransaction, isPreparedDB, preparedDBs,
                            tableChildren, snap>>

\* Reset without the loop over preparedDBs
ResetShallow(d) ==
    IF ~isInTransaction[d] THEN Fail("reset", d, ErrTransactionNotStarted)
    ELSE IF ~isPreparedDB[d] THEN Fail("reset", d, ErrDisallowedCallingInNoPreparedDB)
    ELSE /\ stagingTable' = PurgeAll(stagingTable, {d})
         /\ isDirtyDB' = [isDirtyDB EXCEPT ![d] = FALSE]
         /\ ret' = Result("reset", d, Nil, Ok, Nil, << >>)
         /\ seen' = Forget(seen, {d})
         /\ UNCHANGED <<storage, isInTransaction, isPreparedDB, preparedDBs,
                        tableChildren, snap>>

\* MVCCDB.Reset
Reset(d) ==
    IF ~isInTransaction[d] THEN Fail("reset", d, ErrTransactionNotStarted)
    ELSE IF ~isPreparedDB[d] THEN Fail("reset", d, ErrDisallowedCallingInNoPreparedDB)
    ELSE LET S == ResetSet(d)
         IN  /\ stagingTable' = PurgeAll(stagingTable, S)
             /\ isDirtyDB' = [x \in DBIds |-> IF x \in S THEN FALSE ELSE isDirtyDB[x]]
             /\ ret' = Result("reset", d, Nil, Ok, Nil, << >>)
             /\ seen' = Forget(seen, S)
             /\ UNCHANGED <<storage, isInTransaction, isPreparedDB, preparedDBs,
                            tableChildren, snap>>

\* --------------------------------------------------------------- BatchTrie
\* the two writes of an entry into the operation logs that end Get, Put and
\* Del: initialoplog[key] if the key is not in it, then finaloplog[key] if
\* setFin; a write into a nil map is a runtime panic, which stops the
\* program with what was written before it
LogEntry(b, k, entry, setFin) ==
    LET ini == initialoplog[b]
        fin == finaloplog[b]
        setIni == ~InLog(ini, k)
        panicsIni == setIni /\ ini.isNil
        panicsFin == ~panicsIni /\ setFin /\ fin.isNil
    IN  /\ initialoplog' = IF setIni /\ ~panicsIni
                           THEN [initialoplog EXCEPT ![b] = SetLog(ini, k, entry)]
                           ELSE initialoplog
        /\ finaloplog' = IF setFin /\ ~panicsIni /\ ~panicsFin
                         THEN [finaloplog EXCEPT ![b] = SetLog(fin, k, entry)]
                         ELSE finaloplog
        /\ panicked' = (panicsIni \/ panicsFin)

\* BatchTrie.Get
BatchTrieGet(b, k) ==
    LET g == TrieGet(trie[b], k)
        entry == Entry(GetAction, k, g.val, g.val)
        fin == finaloplog[b]
    IN  /\ ~panicked
        /\ LogEntry(b, k, entry, ~InLog(fin, k) \/ (InLog(fin, k) /\ entry.action = GetAction))
        /\ tret' = TrieResult("get", b, k, g.val, IF panicked' THEN "panic" ELSE g.err, FALSE)
        /\ accessed' = IF panicked' THEN accessed ELSE [accessed EXCEPT ![b] = @ \cup {k}]
        /\ UNCHANGED <<trie, changelog, batching, atBegin, undone, modified>>

\* the end of Put and Del after the write to the trie: the operation logs,
\* then the changelog if batching
LogWrite(op, b, k, entry) ==
    /\ LogEntry(b, k, entry, TRUE)
    /\ changelog' = IF batching[b] /\ ~panicked'
                    THEN [changelog EXCEPT ![b] = Append(@, entry)]
                    ELSE changelog
    /\ tret' = TrieResult(op, b, k, Nil, IF panicked' THEN "panic" ELSE Ok, FALSE)
    /\ accessed' = IF panicked' THEN accessed ELSE [accessed EXCEPT ![b] = @ \cup {k}]
    /\ modified' = IF panicked' THEN modified ELSE [modified EXCEPT ![b] = @ \cup {k}]

\* BatchTrie.Put
BatchTriePut(b, k, v) ==
    LET g == TrieGet(trie[b], k)
        entry == IF g.err # Ok THEN Entry(Insert, k, Nil, v) ELSE Entry(Update, k, g.val, v)
        p == TriePut(trie[b], k, v)
    IN  /\ ~panicked
        /\ IF p.err # Ok
           THEN /\ tret' = TrieResult("put", b, k, Nil, p.err, FALSE)
                /\ UNCHANGED <<trie, changelog, batching, initialoplog, finaloplog,
                               panicked, atBegin, undone, accessed, modified>>
           ELSE /\ trie' = [trie EXCEPT ![b] = p.t]
                /\ LogWrite("put", b, k, entry)
                /\ UNCHANGED <<batching, atBegin, undone>>

\* BatchTrie.Del
BatchTrieDel(b, k) ==
    LET g == TrieGet(trie[b], k)
        entry == Entry(Delete, k, IF g.err = Ok THEN g.val ELSE Nil, Nil)
        p == TrieDel(trie[b], k)
    IN  /\ ~panicked
        /\ IF p.err # Ok
           THEN /\ tret' = TrieResult("del", b, k, Nil, p.err, FALSE)
                /\ UNCHANGED <<trie, changelog, batching, initialoplog, finaloplog,
                               panicked, atBegin, undone, accessed, modified>>
           ELSE /\ trie' = [trie EXCEPT ![b] = p.t]
                /\ LogWrite("del", b, k, entry)
                /\ UNCHANGED <<batching, atBegin, undone>>

\* BatchTrie.BeginBatch
BeginBatch(b) ==
    /\ ~panicked
    /\ batching' = [batching EXCEPT ![b] = TRUE]
    /\ atBegin' = IF batching[b] THEN atBegin ELSE [atBegin EXCEPT ![b] = trie[b]]
    /\ tret' = TrieResult("begin", b, Nil, Nil, Ok, FALSE)
    /\ UNCHANGED <<trie, changelog, initialoplog, finaloplog, panicked, undone,
                   accessed, modified>>

\* BatchTrie.Commit
BatchTrieCommit(b) ==
    /\ ~panicked
    /\ changelog' = [changelog EXCEPT ![b] = << >>]
    /\ batching' = [batching EXCEPT ![b] = FALSE]
    /\ tret' = TrieResult("commit", b, Nil, Nil, Ok, FALSE)
    /\ UNCHANGED <<trie, initialoplog, finaloplog, panicked, atBegin, undone,
                   accessed, modified>>

\* RollBack, "compress changelog" taking the last entry of each key
CompressLast(log, k) == log[CHOOSE i \in 1..Len(log) :
                                log[i].key = k /\ \A j \in (i + 1)..Len(log) : log[j].key # k]

\* RollBack, "compress changelog": the first entry of each key
Logged(log, k) == \E i \in 1..Len(log) : log[i].key = k
Compress(log, k) == log[CHOOSE i \in 1..Len(log) :
                            log[i].key = k /\ \A j \in 1..(i - 1) : log[j].key # k]

\* RollBack, "rollback": the write that undoes the entry
Undo(t, entry) ==
    IF entry.action = Insert THEN TrieDel(t, entry.key).t
    ELSE IF entry.action \in {Update, Delete} THEN TriePut(t, entry.key, entry.old).t
    ELSE t

\* BatchTrie.RollBack
BatchTrieRollBack(b) ==
    /\ ~panicked
    /\ changelog' = [changelog EXCEPT ![b] = << >>]
    /\ initialoplog' = [initialoplog EXCEPT ![b] = NilLog]
    /\ finaloplog' = [finaloplog EXCEPT ![b] = NilLog]
    /\ trie' = [trie EXCEPT ![b] =
                   [k \in Keys |-> IF Logged(changelog[b], k)
                                   THEN Undo(trie[b], Compress(changelog[b], k))[k]
                                   ELSE trie[b][k]]]
    /\ batching' = [batching EXCEPT ![b] = FALSE]
    /\ tret' = TrieResult("rollback", b, Nil, Nil, Ok, FALSE)
    /\ undone' = [undone EXCEPT ![b] = changelog[b]]
    /\ UNCHANGED <<panicked, atBegin, accessed, modified>>

\* BatchTrie.RelatedTo
RelatedTo(b, tob) ==
    \E k \in Keys :
        /\ InLog(finaloplog[b], k)
        /\ InLog(finaloplog[tob], k)
        /\ (finaloplog[b].at[k].action # GetAction \/ finaloplog[tob].at[k].action # GetAction)

\* a call of bt.RelatedTo(tobt)
CallRelatedTo(b, tob) ==
    /\ ~panicked
    /\ tret' = TrieResult("related", b, Nil, Nil, Ok, RelatedTo(b, tob))
    /\ UNCHANGED <<trie, changelog, batching, initialoplog, finaloplog, panicked,
                   atBegin, undone, accessed, modified>>

\* ---------------------------------------------------------- specifications
\* Every specification runs the calls above; they differ in the databases,
\* keys and values the client works with.  A call is one step, made from
\* entry to return while no thread holds a lock (lockVars unchanged).  The client of these
\* specifications makes no call that can only return an error of misuse
\* (Begin inside a transaction, Commit on a prepared database, Prepare of a
\* nil or registered TID, ...): such a call changes nothing but its result.
\* It names the databases it prepares T1, then T2.
KeysMain == {"k1"}
ValsMain == {"v1"}

UsedTids == UNION {preparedDBs[d] : d \in DBIds}
FreshTid(tid) == tid \notin UsedTids /\ (tid = "T2" => "T1" \in UsedTids)
\* the root reads and writes for itself before it prepares databases
RootAlone(d) == d = Root => preparedDBs[Root] = {}
\* the root fills the backend before its first transaction
RootFills(d) == d = Root => (preparedDBs[Root] = {} /\ ~isInTransaction[Root])

\* the root, its prepared databases and theirs, on one key and one value
Next ==
    \/ \E d \in dbs : ~isInTransaction[d] /\ Begin(d) /\ UNCHANGED <<lockVars, trieVars>>
    \/ \E d \in dbs : isInTransaction[d] /\ ~isPreparedDB[d] /\ Commit(d) /\ UNCHANGED <<lockVars, trieVars>>
    \/ \E d \in dbs : isInTransaction[d] /\ ~isPreparedDB[d] /\ RollBack(d) /\ UNCHANGED <<lockVars, trieVars>>
    \/ \E d \in dbs, k \in KeysMain : Get(d, k) /\ UNCHANGED <<lockVars, trieVars>>
    \/ \E d \in dbs, k \in KeysMain, v \in ValsMain : Put(d, k, v) /\ UNCHANGED <<lockVars, trieVars>>
    \/ \E d \in dbs, k \in KeysMain : Del(d, k) /\ UNCHANGED <<lockVars, trieVars>>
    \/ \E d \in dbs, tid \in Tids : isInTransaction[d] /\ FreshTid(tid) /\ Prepare(d, tid) /\ UNCHANGED <<lockVars, trieVars>>
    \/ \E d \in dbs : isPreparedDB[d] /\ CheckAndUpdate(d) /\ UNCHANGED <<lockVars, trieVars>>
    \/ \E d \in dbs : isPreparedDB[d] /\ Reset(d) /\ UNCHANGED <<lockVars, trieVars>>

Spec == Init /\ [][Next]_vars

\* the root alone, every call of a flat transaction, on every key and value
NextFlat ==
    \/ Begin(Root) /\ UNCHANGED <<lockVars, trieVars>>
    \/ Commit(Root) /\ UNCHANGED <<lockVars, trieVars>>
    \/ RollBack(Root) /\ UNCHANGED <<lockVars, trieVars>>
    \/ \E k \in Keys : Get(Root, k) /\ UNCHANGED <<lockVars, trieVars>>
    \/ \E k \in Keys, v \in Vals : Put(Root, k, v) /\ UNCHANGED <<lockVars, trieVars>>
    \/ \E k \in Keys : Del(Root, k) /\ UNCHANGED <<lockVars, trieVars>>

SpecFlat == Init /\ [][NextFlat]_vars

\* the root and the databases prepared on it, on one key and every value
NextSiblings ==
    \/ ~isInTransaction[Root] /\ Begin(Root) /\ UNCHANGED <<lockVars, trieVars>>
    \/ isInTransaction[Root] /\ Commit(Root) /\ UNCHANGED <<lockVars, trieVars>>
    \/ isInTransaction[Root] /\ RollBack(Root) /\ UNCHANGED <<lockVars, trieVars>>
    \/ \E d \in dbs, k \in KeysMain : RootAlone(d) /\ Get(d, k) /\ UNCHANGED <<lockVars, trieVars>>
    \/ \E d \in dbs, k \in KeysMain, v \in Vals : RootAlone(d) /\ Put(d, k, v) /\ UNCHANGED <<lockVars, trieVars>>
    \/ \E d \in dbs, k \in KeysMain : RootAlone(d) /\ Del(d, k) /\ UNCHANGED <<lockVars, trieVars>>
    \/ \E tid \in Tids : isInTransaction[Root] /\ FreshTid(tid) /\ Prepare(Root, tid) /\ UNCHANGED <<lockVars, trieVars>>
    \/ \E d \in dbs : isPreparedDB[d] /\ CheckAndUpdate(d) /\ UNCHANGED <<lockVars, trieVars>>
    \/ \E d \in dbs : isPreparedDB[d] /\ Reset(d) /\ UNCHANGED <<lockVars, trieVars>>

SpecSiblings == Init /\ [][NextSiblings]_vars

\* the root and the databases prepared on it, on one value, where the
\* database T1 works on k1 and the database T2 on k2
KeysDisjoint(d) == IF d = Root THEN Keys ELSE IF d[1] = "T1" THEN {"k1"} ELSE {"k2"}

NextDisjoint ==
    \/ ~isInTransaction[Root] /\ Begin(Root) /\ UNCHANGED <<lockVars, trieVars>>
    \/ isInTransaction[Root] /\ Commit(Root) /\ UNCHANGED <<lockVars, trieVars>>
    \/ isInTransaction[Root] /\ RollBack(Root) /\ UNCHANGED <<lockVars, trieVars>>
    \/ \E d \in dbs : \E k \in KeysDisjoint(d) : RootFills(d) /\ Get(d, k) /\ UNCHANGED <<lockVars, trieVars>>
    \/ \E d \in dbs : \E k \in KeysDisjoint(d), v \in ValsMain : RootFills(d) /\ Put(d, k, v) /\ UNCHANGED <<lockVars, trieVars>>
    \/ \E d \in dbs : \E k \in KeysDisjoint(d) : RootFills(d) /\ Del(d, k) /\ UNCHANGED <<lockVars, trieVars>>
    \/ \E tid \in Tids : isInTransaction[Root] /\ FreshTid(tid) /\ Prepare(Root, tid) /\ UNCHANGED <<lockVars, trieVars>>
    \/ \E d \in dbs : isPreparedDB[d] /\ CheckAndUpdate(d) /\ UNCHANGED <<lockVars, trieVars>>
    \/ \E d \in dbs : isPreparedDB[d] /\ Reset(d) /\ UNCHANGED <<lockVars, trieVars>>

SpecDisjoint == Init /\ [][NextDisjoint]_vars

\* the root and the databases prepared on it, on one value, where the
\* database T1 reads and writes every key and the database T2 writes k2
NextOverlap ==
    \/ ~isInTransaction[Root] /\ Begin(Root) /\ UNCHANGED <<lockVars, trieVars>>
    \/ isInTransaction[Root] /\ Commit(Root) /\ UNCHANGED <<lockVars, trieVars>>
    \/ isInTransaction[Root] /\ RollBack(Root) /\ UNCHANGED <<lockVars, trieVars>>
    \/ \E k \in Keys : "T1" \in preparedDBs[Root] /\ Get(<<"T1">>, k) /\ UNCHANGED <<lockVars, trieVars>>
    \/ \E k \in Keys, v \in ValsMain : "T1" \in preparedDBs[Root] /\ Put(<<"T1">>, k, v) /\ UNCHANGED <<lockVars, trieVars>>
    \/ \E v \in ValsMain : "T2" \in preparedDBs[Root] /\ Put(<<"T2">>, "k2", v) /\ UNCHANGED <<lockVars, trieVars>>
    \/ \E tid \in Tids : isInTransaction[Root] /\ FreshTid(tid) /\ Prepare(Root, tid) /\ UNCHANGED <<lockVars, trieVars>>
    \/ \E d \in dbs : isPreparedDB[d] /\ CheckAndUpdate(d) /\ UNCHANGED <<lockVars, trieVars>>
    \/ \E d \in dbs : isPreparedDB[d] /\ Reset(d) /\ UNCHANGED <<lockVars, trieVars>>

SpecOverlap == Init /\ [][NextOverlap]_vars

\* the root, its prepared databases and theirs, on one key and one value,
\* with a client that makes every call but Del on every database in every
\* state, the calls of misuse included.  A TID the client has not used yet
\* is T1, then T2; one it has used, or nil, is any.
NewTid(tid) == tid \in Tids \ UsedTids => FreshTid(tid)

NextMisuse ==
    \/ \E d \in dbs : Begin(d) /\ UNCHANGED <<lockVars, trieVars>>
    \/ \E d \in dbs : Commit(d) /\ UNCHANGED <<lockVars, trieVars>>
    \/ \E d \in dbs : RollBack(d) /\ UNCHANGED <<lockVars, trieVars>>
    \/ \E d \in dbs, k \in KeysMain : Get(d, k) /\ UNCHANGED <<lockVars, trieVars>>
    \/ \E d \in dbs, k \in KeysMain, v \in ValsMain : Put(d, k, v) /\ UNCHANGED <<lockVars, trieVars>>
    \/ \E d \in dbs, tid \in Tids \cup {Nil} : NewTid(tid) /\ Prepare(d, tid) /\ UNCHANGED <<lockVars, trieVars>>
    \/ \E d \in dbs : CheckAndUpdate(d) /\ UNCHANGED <<lockVars, trieVars>>
    \/ \E d \in dbs : Reset(d) /\ UNCHANGED <<lockVars, trieVars>>

SpecMisuse == Init /\ [][NextMisuse]_vars

\* the root alone in transactions, on every key and value, on a storage
\* that may reject the write of one key during a Commit
NextBackend ==
    \/ ~isInTransaction[Root] /\ Begin(Root) /\ UNCHANGED <<lockVars, trieVars>>
    \/ \E fk \in Keys \cup {Nil} : isInTransaction[Root] /\ CommitFailing(Root, fk) /\ UNCHANGED <<lockVars, trieVars>>
    \/ isInTransaction[Root] /\ RollBack(Root) /\ UNCHANGED <<lockVars, trieVars>>
    \/ \E k \in Keys : Get(Root, k) /\ UNCHANGED <<lockVars, trieVars>>
    \/ \E k \in Keys, v \in Vals : Put(Root, k, v) /\ UNCHANGED <<lockVars, trieVars>>
    \/ \E k \in Keys : Del(Root, k) /\ UNCHANGED <<lockVars, trieVars>>

SpecBackend == Init /\ [][NextBackend]_vars

\* two BatchTries outside a batch, each with a client that reads, writes
\* and deletes one key, and asks either whether it is related to the other
NextRelated ==
    \/ \E b \in BatchTries, k \in KeysMain : BatchTrieGet(b, k) /\ UNCHANGED dbVars
    \/ \E b \in BatchTries, k \in KeysMain, v \in Vals : BatchTriePut(b, k, v) /\ UNCHANGED dbVars
    \/ \E b \in BatchTries, k \in KeysMain : BatchTrieDel(b, k) /\ UNCHANGED dbVars
    \/ \E b \in BatchTries, tob \in BatchTries : b # tob /\ CallRelatedTo(b, tob) /\ UNCHANGED dbVars

SpecRelated == Init /\ [][NextRelated]_vars

\* one BatchTrie on two keys and two values, with a client that makes every
\* call in every state; a batch logs at most MaxChangelog writes
NextBatch ==
    \/ BeginBatch("bt") /\ UNCHANGED dbVars
    \/ BatchTrieCommit("bt") /\ UNCHANGED dbVars
    \/ BatchTrieRollBack("bt") /\ UNCHANGED dbVars
    \/ \E k \in Keys : BatchTrieGet("bt", k) /\ UNCHANGED dbVars
    \/ \E k \in Keys, v \in Vals : Len(changelog["bt"]) < MaxChangelog /\ BatchTriePut("bt", k, v) /\ UNCHANGED dbVars
    \/ \E k \in Keys : Len(changelog["bt"]) < MaxChangelog /\ BatchTrieDel("bt", k) /\ UNCHANGED dbVars

SpecBatch == Init /\ [][NextBatch]_vars

\* ------------------------------------------------------- threads and locks
\* The calls again, lock by lock, for a root and the databases prepared on
\* it.  A call takes the mutex of its database at entry and holds it to its
\* return (mvccdb.go, first lines of every call).  A staging table's
\* operation takes the table's mutex for its duration: Get, Put and
\* MergeToParent take the parent table's mutex while they hold their own,
\* Purge takes the mutexes of the child tables while it holds its own
\* (design document, sections 4.2 and 5).  A thread that is to take a mutex
\* waits until it is free.  The work of a call is done in the step that
\* takes the last lock the work needs, and the locks are released with it.
At(t, op, d, k, pos, left, c) ==
    [pc EXCEPT ![t] = [op |-> op, db |-> d, key |-> k, at |-> pos, left |-> left,
                       child |-> c]]
Move(t, pos, left, c) == At(t, pc[t].op, pc[t].db, pc[t].key, pos, left, c)

\* the call returns before it reaches the staging table
EarlyReturn(op, d) ==
    CASE op \in {"commit", "rollback"} -> ~isInTransaction[d] \/ isPreparedDB[d]
      [] op \in {"check_and_update", "reset"} -> ~isInTransaction[d] \/ ~isPreparedDB[d]
      [] OTHER -> ~isInTransaction[d]

\* the call of thread t, from entry to return
Work(t) ==
    CASE pc[t].op = "get" -> Get(pc[t].db, pc[t].key)
      [] pc[t].op = "put" -> \E v \in ValsMain : Put(pc[t].db, pc[t].key, v)
      [] pc[t].op = "commit" -> Commit(pc[t].db)
      [] pc[t].op = "check_and_update" -> CheckAndUpdate(pc[t].db)
      [] pc[t].op = "reset" -> Reset(pc[t].db)
      [] OTHER -> RollBack(pc[t].db)

\* the thread enters a call of database d
Enter(t, op, d, k) ==
    /\ pc[t] = Idle
    /\ pc' = At(t, op, d, k, "mutex", {}, Nil)
    /\ UNCHANGED <<coreVars, ret, snap, seen, mutex, tableMutex>>

\* db.mutex.Lock() of the call; a call that returns early does so here
LockDB(t) ==
    LET d == pc[t].db
    IN  /\ pc[t].at = "mutex"
        /\ mutex[d] = Nil
        /\ IF EarlyReturn(pc[t].op, d)
           THEN Work(t) /\ pc' = [pc EXCEPT ![t] = Idle] /\ UNCHANGED <<mutex, tableMutex>>
           ELSE /\ mutex' = [mutex EXCEPT ![d] = t]
                /\ pc' = IF pc[t].op # "rollback" THEN Move(t, "table", {}, Nil)
                         ELSE IF preparedDBs[d] = {} THEN Move(t, "table", {}, Nil)
                         ELSE Move(t, "reset", preparedDBs[d], Nil)
                /\ UNCHANGED <<coreVars, ret, snap, seen, tableMutex>>

\* the mutex of the database's own staging table: Commit (stagingTable.Lock),
\* Reset (Purge) and a Get or Put that finds the key in the table do their
\* work under it; the other calls go on to the parent's table
LockTable(t) ==
    LET d == pc[t].db
    IN  /\ pc[t].at = "table"
        /\ pc[t].op # "rollback"
        /\ tableMutex[d] = Nil
        /\ IF \/ pc[t].op \in {"commit", "reset"}
              \/ pc[t].op \in {"get", "put"} /\ (d = Root \/ Has(stagingTable[d], pc[t].key))
           THEN /\ Work(t)
                /\ mutex' = [mutex EXCEPT ![d] = Nil]
                /\ pc' = [pc EXCEPT ![t] = Idle]
                /\ UNCHANGED tableMutex
           ELSE /\ tableMutex' = [tableMutex EXCEPT ![d] = t]
                /\ pc' = Move(t, "parent", {}, Nil)
                /\ UNCHANGED <<coreVars, ret, snap, seen, mutex>>

\* the mutex of the parent's staging table: the read through of Get and
\* Put, and MergeToParent
LockParent(t) ==
    LET d == pc[t].db
    IN  /\ pc[t].at = "parent"
        /\ tableMutex[Parent(d)] = Nil
        /\ Work(t)
        /\ tableMutex' = [tableMutex EXCEPT ![d] = Nil]
        /\ mutex' = [mutex EXCEPT ![d] = Nil]
        /\ pc' = [pc EXCEPT ![t] = Idle]

\* RollBack, after db.mutex: the loop of pdb.Reset() over preparedDBs, each
\* under the child's mutex and its table's mutex
PickChild(t) ==
    /\ pc[t].at = "reset"
    /\ \E c \in pc[t].left : pc' = Move(t, "childMutex", pc[t].left \ {c}, c)
    /\ UNCHANGED <<coreVars, ret, snap, seen, mutex, tableMutex>>

LockChild(t) ==
    LET c == ChildOf(pc[t].db, pc[t].child)
    IN  /\ pc[t].at = "childMutex"
        /\ mutex[c] = Nil
        /\ mutex' = [mutex EXCEPT ![c] = t]
        /\ pc' = Move(t, "childTable", pc[t].left, pc[t].child)
        /\ UNCHANGED <<coreVars, ret, snap, seen, tableMutex>>

ResetChild(t) ==
    LET c == ChildOf(pc[t].db, pc[t].child)
    IN  /\ pc[t].at = "childTable"
        /\ tableMutex[c] = Nil
        /\ Reset(c)
        /\ mutex' = [mutex EXCEPT ![c] = Nil]
        /\ pc' = IF pc[t].left = {} THEN Move(t, "table", {}, Nil)
                 ELSE Move(t, "reset", pc[t].left, Nil)
        /\ UNCHANGED tableMutex

\* RollBack, db.stagingTable.Purge(): the table's mutex, then each child
\* table purged under its mutex, then the table's own records
LockPurge(t) ==
    LET d == pc[t].db
    IN  /\ pc[t].at = "table"
        /\ pc[t].op = "rollback"
        /\ tableMutex[d] = Nil
        /\ tableMutex' = [tableMutex EXCEPT ![d] = t]
        /\ pc' = IF tableChildren[d] = {} THEN Move(t, "done", {}, Nil)
                 ELSE Move(t, "purge", tableChildren[d], Nil)
        /\ UNCHANGED <<coreVars, ret, snap, seen, mutex>>

PickTable(t) ==
    /\ pc[t].at = "purge"
    /\ \E c \in pc[t].left : pc' = Move(t, "purgeTable", pc[t].left \ {c}, c)
    /\ UNCHANGED <<coreVars, ret, snap, seen, mutex, tableMutex>>

PurgeChild(t) ==
    LET c == ChildOf(pc[t].db, pc[t].child)
    IN  /\ pc[t].at = "purgeTable"
        /\ tableMutex[c] = Nil
        /\ stagingTable' = Purge(stagingTable, c)
        /\ seen' = Forget(seen, {c})
        /\ pc' = IF pc[t].left = {} THEN Move(t, "done", {}, Nil)
                 ELSE Move(t, "purge", pc[t].left, Nil)
        /\ UNCHANGED <<storage, isInTransaction, isPreparedDB, isDirtyDB, preparedDBs,
                       tableChildren, ret, snap, mutex, tableMutex>>

\* RollBack, the end: the table's own records, the flags, the return
FinishRollBack(t) ==
    LET d == pc[t].db
    IN  /\ pc[t].at = "done"
        /\ stagingTable' = [stagingTable EXCEPT ![d] = << >>]
        /\ isInTransaction' = [isInTransaction EXCEPT ![d] = FALSE]
        /\ isDirtyDB' = [isDirtyDB EXCEPT ![d] = FALSE]
        /\ storage' = RollBackStorage(storage, stagingTable[d])
        /\ ret' = Result("rollback", d, Nil, Ok, Nil, << >>)
        /\ seen' = [seen EXCEPT ![d] = [k \in Keys |-> NoSeen]]
        /\ tableMutex' = [tableMutex EXCEPT ![d] = Nil]
        /\ mutex' = [mutex EXCEPT ![d] = Nil]
        /\ pc' = [pc EXCEPT ![t] = Idle]
        /\ UNCHANGED <<isPreparedDB, preparedDBs, tableChildren, snap>>

\* the root with the thread main and the databases T1 and T2 prepared on
\* it with the threads w1 and w2, on one key and one value; w1 reads,
\* writes and merges, w2 merges and resets; Begin and Prepare are one
\* step each, made while their locks are free
DbOf(t) == IF t = "w1" THEN <<"T1">> ELSE IF t = "w2" THEN <<"T2">> ELSE Root

NextLocks ==
    \/ pc["main"] = Idle /\ mutex[Root] = Nil /\ ~isInTransaction[Root] /\ Begin(Root) /\ UNCHANGED <<lockVars, trieVars>>
    \/ \E tid \in Tids : pc["main"] = Idle /\ mutex[Root] = Nil /\ tableMutex[Root] = Nil /\ isInTransaction[Root] /\ FreshTid(tid) /\ Prepare(Root, tid) /\ UNCHANGED <<lockVars, trieVars>>
    \/ \E op \in {"commit", "rollback"} : isInTransaction[Root] /\ Enter("main", op, Root, Nil) /\ UNCHANGED trieVars
    \/ \E op \in {"get", "put"}, k \in KeysMain : DbOf("w1") \in dbs /\ Enter("w1", op, DbOf("w1"), k) /\ UNCHANGED trieVars
    \/ \E t \in {"w1", "w2"} : DbOf(t) \in dbs /\ Enter(t, "check_and_update", DbOf(t), Nil) /\ UNCHANGED trieVars
    \/ DbOf("w2") \in dbs /\ Enter("w2", "reset", DbOf("w2"), Nil) /\ UNCHANGED trieVars
    \/ \E t \in Threads : LockDB(t) /\ UNCHANGED trieVars
    \/ \E t \in Threads : LockTable(t) /\ UNCHANGED trieVars
    \/ \E t \in Threads : LockParent(t) /\ UNCHANGED trieVars
    \/ \E t \in Threads : PickChild(t) /\ UNCHANGED trieVars
    \/ \E t \in Threads : LockChild(t) /\ UNCHANGED trieVars
    \/ \E t \in Threads : ResetChild(t) /\ UNCHANGED trieVars
    \/ \E t \in Threads : LockPurge(t) /\ UNCHANGED trieVars
    \/ \E t \in Threads : PickTable(t) /\ UNCHANGED trieVars
    \/ \E t \in Threads : PurgeChild(t) /\ UNCHANGED trieVars
    \/ \E t \in Threads : FinishRollBack(t) /\ UNCHANGED trieVars

SpecLocks == Init /\ [][NextLocks]_vars

\* ------------------------------------------------------------------ claims
\* the prepared databases below d
Descendants(d) == {c \in dbs : c # d /\ IsPrefix(d, c)}

\* C1: in every reachable state, IsPreparedDBDirty of a database is true
\* exactly when some prepared database below it has isDirtyDB set.
C1_IsPreparedDirtyIffDescendantDirty ==
    \A d \in dbs : IsPreparedDBDirty(d) <=> (\E c \in Descendants(d) : isDirtyDB[c])

\* C2: a root Commit inside a transaction fails with ErrPreparedDBIsDirty and
\* changes neither the backend, the transaction flag nor a staging table
\* while a prepared database below the root is dirty, and succeeds when none is.
C2_CommitBlockedByDirtyChild ==
    [][(isInTransaction[Root] /\ Commit(Root)) =>
          IF \E c \in Descendants(Root) : isDirtyDB[c]
          THEN /\ ret'.err = ErrPreparedDBIsDirty
               /\ UNCHANGED <<storage, isInTransaction, stagingTable>>
          ELSE ret'.err = Ok]_vars

\* the backend b with the last write of the transaction to each key applied
NetEffect(sn, b) == [k \in Keys |-> IF sn[k].kind = "w" THEN sn[k].val ELSE b[k]]

\* C3: the Commit of a root transaction without prepared databases leaves the
\* backend as it was at Begin with the last write to each written key
\* applied (absent for a Del) and every other key untouched.
C3_CommitAppliesNetEffect ==
    [][(isInTransaction[Root] /\ preparedDBs[Root] = {} /\ Commit(Root)) =>
          storage' = NetEffect(seen[Root], snap)]_vars

\* C4: from Begin to RollBack of the root, whatever the root and its prepared
\* databases do, the backend stays what it was at Begin, and it still is
\* after RollBack.
C4_RollBackLeavesBackend ==
    (isInTransaction[Root] \/ (ret.op = "rollback" /\ ret.err = Ok)) => storage = snap

C4_Witness ==
    /\ ret.op = "rollback" /\ ret.err = Ok
    /\ preparedDBs[Root] # {}
    /\ storage["k1"] = "v1"

C6_PassthroughOutsideTransaction ==
    [][\A k \in Keys, v \in Vals :
          ~isInTransaction[Root] =>
              /\ Get(Root, k) =>
                    /\ ret'.val = storage[k]
                    /\ ret'.err = IF storage[k] = Nil THEN ErrKeyNotFound ELSE Ok
                    /\ UNCHANGED <<storage, stagingTable>>
              /\ Put(Root, k, v) =>
                    /\ ret'.err = Ok
                    /\ storage' = [storage EXCEPT ![k] = v]
                    /\ UNCHANGED stagingTable
              /\ Del(Root, k) =>
                    /\ ret'.err = Ok
                    /\ storage' = [storage EXCEPT ![k] = Nil]
                    /\ UNCHANGED stagingTable]_vars

C6_Witness ==
    /\ ~isInTransaction[Root]
    /\ ret.op = "get" /\ ret.err = Ok /\ ret.key = "k1"
    /\ Has(stagingTable[Root], "k1")
    /\ Rec(stagingTable[Root], "k1").val # ret.val

\* the prepared database c wrote k, and the table of its parent holds a
\* write of k merged by a sibling that read the same value of k as c did
\* and wrote another value than c
SiblingRace(c, k) ==
    LET P == stagingTable[Parent(c)]
        C == stagingTable[c]
    IN  /\ Has(C, k) /\ Rec(C, k).dirty
        /\ Has(P, k) /\ Rec(P, k).dirty
        /\ Rec(P, k).owner \notin AncestorTids(c) \cup {TidOf(c)}
        /\ Rec(P, k).old = Rec(C, k).old
        /\ Rec(P, k).val # Rec(C, k).val

\* a Reset of a prepared database leaves the table of its parent as it is
ResetKeepsParent ==
    \A c \in dbs : (isPreparedDB[c] /\ Reset(c)) =>
        /\ stagingTable'[Parent(c)] = stagingTable[Parent(c)]
        /\ stagingTable'[c] = << >>

\* a Commit of the root writes the staged writes of its table to the backend
CommitWritesStaged ==
    (isInTransaction[Root] /\ Commit(Root) /\ ret'.err = Ok) =>
        \A k \in Keys :
            storage'[k] = IF Has(stagingTable[Root], k) /\ Rec(stagingTable[Root], k).dirty
                          THEN Rec(stagingTable[Root], k).val
                          ELSE storage[k]

\* C7 as stated: when two siblings read the same value of K and wrote
\* different values, the CheckAndUpdate of the second, after the first
\* merged, fails with ErrConflictWithSibling naming the first; a Reset of
\* the loser leaves the parent's table alone and the root Commit writes the
\* first sibling's value to the backend.
C7_FirstCommitterWins_AsStated ==
    [][/\ \A c \in dbs, k \in Keys :
              (isPreparedDB[c] /\ SiblingRace(c, k) /\ CheckAndUpdate(c)) =>
                  /\ ret'.err = ErrConflictWithSibling
                  /\ ret'.tids = <<Rec(stagingTable[Parent(c)], k).owner>>
       /\ ResetKeepsParent
       /\ CommitWritesStaged]_vars

\* C7: the same, for a first sibling whose merged value of K is not the
\* value the two siblings read.
C7_FirstCommitterWins ==
    [][/\ \A c \in dbs, k \in Keys :
              (/\ isPreparedDB[c] /\ SiblingRace(c, k)
               /\ Rec(stagingTable[Parent(c)], k).val # Rec(stagingTable[c], k).old
               /\ CheckAndUpdate(c)) =>
                  /\ ret'.err = ErrConflictWithSibling
                  /\ ret'.tids = <<Rec(stagingTable[Parent(c)], k).owner>>
       /\ ResetKeepsParent
       /\ CommitWritesStaged]_vars

C7_Witness ==
    /\ ret.op = "check_and_update" /\ ret.db = <<"T2">>
    /\ ret.err = ErrConflictWithSibling /\ ret.tids = <<"T1">>
    /\ SiblingRace(<<"T2">>, "k1")
    /\ Rec(stagingTable[Root], "k1").val = "v1"
    /\ Rec(stagingTable[<<"T2">>], "k1").val = "v2"

\* C8: siblings that work on disjoint keys: every CheckAndUpdate succeeds
\* with an empty list, puts exactly the writes of the merging database into
\* the table of the parent and leaves the other records of that table as
\* they are, in whatever order the siblings work and merge; the root Commit
\* writes the staged writes to the backend.
C8_DisjointSiblingsMerge ==
    [][/\ \A c \in dbs :
              (isPreparedDB[c] /\ CheckAndUpdate(c)) =>
                  /\ ret'.err = Ok
                  /\ ret'.tids = << >>
                  /\ \A k \in Keys :
                        LET C  == stagingTable[c]
                            P  == stagingTable[Parent(c)]
                            Pn == stagingTable'[Parent(c)]
                        IN  IF Has(C, k) /\ Propagates(Rec(C, k))
                            THEN /\ Has(Pn, k)
                                 /\ Rec(Pn, k).val = Rec(C, k).val
                                 /\ Rec(Pn, k).deleted = Rec(C, k).deleted
                                 /\ Rec(Pn, k).dirty
                            ELSE /\ Has(Pn, k) = Has(P, k)
                                 /\ Has(P, k) => Rec(Pn, k) = Rec(P, k)
       /\ (isInTransaction[Root] /\ Commit(Root)) =>
              /\ ret'.err = Ok
              /\ \A k \in Keys :
                    storage'[k] = IF Has(stagingTable[Root], k) /\ Rec(stagingTable[Root], k).dirty
                                  THEN Rec(stagingTable[Root], k).val
                                  ELSE storage[k]]_vars

C8_Witness ==
    /\ ret.op = "commit" /\ ret.err = Ok
    /\ Has(stagingTable[Root], "k1") /\ Rec(stagingTable[Root], "k1").owner = "T1"
    /\ Has(stagingTable[Root], "k2") /\ Rec(stagingTable[Root], "k2").owner = "T2"
    /\ Rec(stagingTable[Root], "k1").dirty /\ Rec(stagingTable[Root], "k2").dirty
    /\ storage["k1"] = Rec(stagingTable[Root], "k1").val
    /\ storage["k2"] = Rec(stagingTable[Root], "k2").val

\* C9: a CheckAndUpdate of a prepared database that returns an error
\* changes no staging table, neither the parent's nor its own, and no
\* isDirtyDB flag.
C9_MergeAllOrNothing ==
    [][\A c \in dbs :
          (isPreparedDB[c] /\ CheckAndUpdate(c) /\ ret'.err # Ok) =>
              UNCHANGED <<stagingTable, isDirtyDB>>]_vars

C9_Witness ==
    LET C == stagingTable[<<"T1">>]
    IN  /\ ret.op = "check_and_update" /\ ret.db = <<"T1">>
        /\ ret.err = ErrConflictWithSibling
        /\ Len(C) = 2
        /\ C[1].dirty /\ ~ConflictAt(stagingTable, <<"T1">>, C[1])
        /\ ConflictAt(stagingTable, <<"T1">>, C[2])
        /\ isDirtyDB[<<"T1">>]
        /\ Has(stagingTable[Root], C[1].key) => Rec(stagingTable[Root], C[1].key).owner # "T1"

\* C10: a Get of k by a prepared database that has read k and not written it
\* since returns what its first Get returned, whatever its siblings merged
\* into the parent meanwhile; the first Get of k after its table was
\* emptied (Prepare, Reset, successful CheckAndUpdate) returns the value the
\* table of the parent holds.
C10_SnapshotAtFirstTouch ==
    [][\A c \in dbs, k \in Keys :
          (isPreparedDB[c] /\ Get(c, k)) =>
              /\ seen[c][k].kind = "r" =>
                    /\ ret'.val = seen[c][k].val
                    /\ ret'.err = IF seen[c][k].val = Nil THEN ErrKeyNotFound ELSE Ok
              /\ (seen[c][k].kind = "none" /\ Has(stagingTable[Parent(c)], k)) =>
                    ret'.val = Rec(stagingTable[Parent(c)], k).val]_vars

C10_Witness ==
    /\ ret.op = "get" /\ ret.db = <<"T2">>
    /\ seen[<<"T2">>]["k1"].kind = "r"
    /\ Has(stagingTable[Root], "k1")
    /\ Rec(stagingTable[Root], "k1").dirty
    /\ Rec(stagingTable[Root], "k1").owner = "T1"
    /\ Rec(stagingTable[Root], "k1").val # ret.val

\* C11: a Begin of a prepared database fails with
\* ErrUnsupportedBeginInPreparedDB, a Begin of a root inside a transaction
\* fails with ErrUnsupportedNestedTransaction, and a failed Begin changes
\* no flag.
C11_BeginErrors ==
    [][\A d \in dbs :
          Begin(d) =>
              /\ isPreparedDB[d] =>
                    /\ ret'.err = ErrUnsupportedBeginInPreparedDB
                    /\ UNCHANGED <<isInTransaction, isPreparedDB, isDirtyDB>>
              /\ (~isPreparedDB[d] /\ isInTransaction[d]) =>
                    /\ ret'.err = ErrUnsupportedNestedTransaction
                    /\ UNCHANGED <<isInTransaction, isPreparedDB, isDirtyDB>>]_vars

\* C12: a Commit and a RollBack of a prepared database fail with
\* ErrUnsupportedCommitInPreparedDB and ErrUnsupportedRollBackInPreparedDB,
\* those of a root outside a transaction with ErrTransactionNotStarted, and
\* each of these calls changes nothing but its result.
C12_CommitRollBackErrors ==
    [][\A d \in dbs :
          /\ Commit(d) =>
                /\ isPreparedDB[d] =>
                      ret'.err = ErrUnsupportedCommitInPreparedDB /\ UNCHANGED coreVars
                /\ (~isPreparedDB[d] /\ ~isInTransaction[d]) =>
                      ret'.err = ErrTransactionNotStarted /\ UNCHANGED coreVars
          /\ RollBack(d) =>
                /\ isPreparedDB[d] =>
                      ret'.err = ErrUnsupportedRollBackInPreparedDB /\ UNCHANGED coreVars
                /\ (~isPreparedDB[d] /\ ~isInTransaction[d]) =>
                      ret'.err = ErrTransactionNotStarted /\ UNCHANGED coreVars]_vars

C12_Witness ==
    /\ ret.op = "rollback" /\ ret.err = ErrUnsupportedRollBackInPreparedDB
    /\ ret.db = <<"T1", "T2">>
    /\ isDirtyDB[ret.db] /\ stagingTable[ret.db] # << >>
    /\ storage["k1"] = "v1"

\* C13: a Prepare fails with ErrTransactionNotStarted outside a transaction,
\* with ErrTidIsNil for a nil TID and with ErrTidIsExist for a registered
\* TID, and then changes nothing; a successful Prepare registers the one new
\* TID, whose database is in a transaction, prepared, not dirty and a child
\* of the caller; preparedDBs and the child sets of the staging tables name
\* the same TIDs after every call.
C13_PrepareContract ==
    [][/\ \A d \in dbs, tid \in Tids \cup {Nil} :
              Prepare(d, tid) =>
                  IF ~isInTransaction[d]
                  THEN ret'.err = ErrTransactionNotStarted /\ UNCHANGED coreVars
                  ELSE IF tid = Nil
                  THEN ret'.err = ErrTidIsNil /\ UNCHANGED coreVars
                  ELSE IF tid \in preparedDBs[d]
                  THEN ret'.err = ErrTidIsExist /\ UNCHANGED coreVars
                  ELSE /\ ret'.err = Ok
                       /\ preparedDBs' = [preparedDBs EXCEPT ![d] = @ \cup {tid}]
                       /\ dbs' = dbs \cup {ChildOf(d, tid)}
                       /\ ChildOf(d, tid) \notin dbs
                       /\ Parent(ChildOf(d, tid)) = d
                       /\ isInTransaction'[ChildOf(d, tid)]
                       /\ isPreparedDB'[ChildOf(d, tid)]
                       /\ ~isDirtyDB'[ChildOf(d, tid)]
       /\ preparedDBs' = tableChildren']_vars

C13_Witness ==
    /\ ret.op = "prepare" /\ ret.err = ErrTidIsExist /\ ret.db = <<"T1">>
    /\ preparedDBs[<<"T1">>] = {"T2"}
    /\ tableChildren[<<"T1">>] = {"T2"}
    /\ isDirtyDB[<<"T1", "T2">>]

\* C14: a Commit during which the storage rejected a write does not return
\* success.
C14_CommitReturnsStorageError ==
    (ret.op = "commit" /\ ret.key # Nil) => ret.err # Ok

\* the value of k that a read finds on the way from the table of d through
\* the tables above it to the backend
RECURSIVE Visible(_, _)
Visible(d, k) ==
    IF Has(stagingTable[d], k) THEN Rec(stagingTable[d], k).val
    ELSE IF d = Root THEN storage[k]
    ELSE Visible(Parent(d), k)

\* C15: a Reset of a prepared database empties its staging table and those
\* of the databases below it and clears their isDirtyDB, leaves every other
\* staging table and flag, the registrations and the backend as they are;
\* a Get of k by a database with an empty table returns the value visible
\* through its parent.
C15_ResetFrame ==
    [][\A c \in dbs :
          isPreparedDB[c] =>
              /\ Reset(c) =>
                    /\ ret'.err = Ok
                    /\ \A x \in DBIds :
                          IF IsPrefix(c, x)
                          THEN stagingTable'[x] = << >> /\ ~isDirtyDB'[x]
                          ELSE /\ stagingTable'[x] = stagingTable[x]
                               /\ isDirtyDB'[x] = isDirtyDB[x]
                    /\ UNCHANGED <<storage, isInTransaction, isPreparedDB, preparedDBs>>
              /\ \A k \in Keys :
                    (stagingTable[c] = << >> /\ Get(c, k)) =>
                        /\ ret'.val = Visible(Parent(c), k)
                        /\ ret'.err = IF ret'.val = Nil THEN ErrKeyNotFound ELSE Ok]_vars

C15_Witness ==
    /\ ret.op = "reset" /\ ret.db = <<"T1">>
    /\ "T2" \in preparedDBs[<<"T1">>]
    /\ isInTransaction[<<"T1">>] /\ isPreparedDB[<<"T1">>]
    /\ Has(stagingTable[Root], "k1") /\ Rec(stagingTable[Root], "k1").dirty
    /\ isDirtyDB[Root]

PhantomRead(c, k) ==
    LET P == stagingTable[Parent(c)]
        C == stagingTable[c]
    IN  /\ Has(C, k) /\ ~Rec(C, k).dirty
        /\ Has(P, k) /\ Rec(P, k).dirty
        /\ Rec(P, k).owner \notin AncestorTids(c)
        /\ Rec(P, k).val # Rec(C, k).val

\* C17: the CheckAndUpdate of a prepared database with such a read fails
\* with ErrConflictWithSibling, whatever it wrote; a CheckAndUpdate that
\* succeeds leaves the parent's record of every key the database only read
\* as it was.
C17_PhantomRead ==
    [][\A c \in dbs :
          (isPreparedDB[c] /\ CheckAndUpdate(c)) =>
              /\ (\E k \in Keys : PhantomRead(c, k)) => ret'.err = ErrConflictWithSibling
              /\ ret'.err = Ok =>
                    \A k \in Keys :
                        LET C  == stagingTable[c]
                            P  == stagingTable[Parent(c)]
                            Pn == stagingTable'[Parent(c)]
                        IN  (Has(C, k) /\ ~Rec(C, k).dirty) =>
                                /\ Has(Pn, k) = Has(P, k)
                                /\ Has(P, k) => Rec(Pn, k) = Rec(P, k)]_vars

C17_Witness ==
    /\ ret.op = "check_and_update" /\ ret.db = <<"T1">>
    /\ ret.err = ErrConflictWithSibling /\ ret.tids = <<"T2">>
    /\ PhantomRead(<<"T1">>, "k2")
    /\ Has(stagingTable[<<"T1">>], "k1")
    /\ Rec(stagingTable[<<"T1">>], "k1").dirty
    /\ ~ConflictAt(stagingTable, <<"T1">>, Rec(stagingTable[<<"T1">>], "k1"))

\* C19: after a RollBack of the root no database is registered in it (so
\* that a Prepare of any TID in a following transaction succeeds).
C19_RollBackDestroysChildren ==
    (ret.op = "rollback" /\ ret.err = Ok) => preparedDBs[Root] = {}

\* C20: the first Get of k in a root transaction, before the transaction
\* wrote k, returns the value the backend holds for k, and ErrKeyNotFound
\* when it holds none, whatever transactions and writes came before.
C20_TransactionStartsEmpty ==
    [][\A k \in Keys :
          (isInTransaction[Root] /\ seen[Root][k].kind = "none" /\ Get(Root, k)) =>
              /\ ret'.val = storage[k]
              /\ ret'.err = IF storage[k] = Nil THEN ErrKeyNotFound ELSE Ok]_vars

\* the thread that holds the mutex thread t is to take next; Nil when the
\* mutex is free or t is to take none
Awaited(t) ==
    LET d == pc[t].db
        c == ChildOf(d, pc[t].child)
    IN  CASE pc[t].at = "mutex" -> mutex[d]
          [] pc[t].at = "table" -> tableMutex[d]
          [] pc[t].at = "parent" -> tableMutex[Parent(d)]
          [] pc[t].at = "childMutex" -> mutex[c]
          [] pc[t].at \in {"childTable", "purgeTable"} -> tableMutex[c]
          [] OTHER -> Nil

\* some threads wait for mutexes that threads among them hold
Deadlocked == \E S \in SUBSET Threads : S # {} /\ \A t \in S : Awaited(t) \in S

\* C18: no interleaving of the calls of the root's thread and of the
\* prepared databases' threads reaches a state in which threads wait for
\* each other's mutexes.
C18_DeadlockFree == ~Deadlocked

\* C21: a CheckAndUpdate of a prepared database whose parent is not in a
\* transaction (the parent's transaction was committed or rolled back)
\* leaves the parent's staging table as it was, so nothing of it can
\* reach the storage at a later Commit.
C21_NoMergeIntoEndedTransaction ==
    [][\A c \in dbs :
          (isPreparedDB[c] /\ ~isInTransaction[Parent(c)] /\ CheckAndUpdate(c)) =>
              stagingTable'[Parent(c)] = stagingTable[Parent(c)]]_vars

\* C22: a prepared database whose isDirtyDB is false has no dirty record
\* in its staging table: what it wrote, or what a database prepared on it
\* merged into it, is either merged on, reset, or flagged.
C22_DirtyFlagSound ==
    \A d \in dbs :
        (isPreparedDB[d] /\ ~isDirtyDB[d]) =>
            \A i \in 1..Len(stagingTable[d]) : ~stagingTable[d][i].dirty

\* some key was recorded by both BatchTries and written by one of them
SharedWrite ==
    \E k \in accessed["bt"] \cap accessed["tobt"] : k \in modified["bt"] \cup modified["tobt"]

\* C23: after any Gets, Puts and Dels on two BatchTries, RelatedTo returns
\* true exactly when some key was accessed by both and written (Put or
\* Del) by at least one, read again afterwards or not, and returns the same
\* with the two BatchTries swapped.
C23_RelatedToIffSharedWrite ==
    tret.op = "related" =>
        /\ tret.related = SharedWrite
        /\ RelatedTo("bt", "tobt") = RelatedTo("tobt", "bt")

\* C24: a RollBack of a batch leaves the trie with the contents it had when
\* the batch began, whatever the batch read, wrote and deleted, with an
\* empty changelog and batching false.
C24_RollBackRestoresTrie ==
    [][(batching["bt"] /\ BatchTrieRollBack("bt")) =>
          /\ trie'["bt"] = atBegin["bt"]
          /\ changelog'["bt"] = << >>
          /\ ~batching'["bt"]]_vars

\* a RollBack has undone a batch that inserted a new key, deleted it again
\* and then wrote a key the trie held
C24_Witness ==
    /\ tret.op = "rollback"
    /\ Len(undone["bt"]) = 3
    /\ undone["bt"][1].action = Insert
    /\ undone["bt"][2].action = Delete /\ undone["bt"][2].key = undone["bt"][1].key
    /\ undone["bt"][3].action = Update /\ undone["bt"][3].old # undone["bt"][3].update
    /\ trie["bt"] = atBegin["bt"]
    /\ changelog["bt"] = << >> /\ ~batching["bt"]

\* C25: after a RollBack, which leaves the operation logs unset, every
\* Get, Put and Del returns normally: none stops in a runtime panic.
C25_UsableAfterRollBack ==
    (initialoplog["bt"].isNil \/ finaloplog["bt"].isNil) =>
        (~panicked /\ tret.err # "panic")
====
